---------------------------- MODULE Spec2Model ----------------------------
(***************************************************************************)
(* Model of the vectorizer service: the embedding provider (the module-    *)
(* level `embedder` handle, initializeEmbedder, vectorize, vectorizeBatch, *)
(* getModelInfo), the HTTP handlers that validate requests before calling  *)
(* it, and the vector-math functions (cosineSimilarity, euclideanDistance, *)
(* findSimilar) together with the similarity label.                        *)
(*                                                                         *)
(* An async function runs without interruption up to its next `await`;     *)
(* every action below is one such uninterrupted run of one caller.         *)
(*                                                                         *)
(* Numbers: vector components are small integers.  A cosine similarity is  *)
(* kept exactly, as the pair (n, d) standing for n / sqrt(d), and compared *)
(* exactly; IEEE-754 rounding of the division is not modelled.             *)
(***************************************************************************)
EXTENDS Integers, Sequences, FiniteSets, TLC

VARIABLES
    embedder,       \* the module-level handle: NULL or a backend handle
    pc,             \* per caller: where its call stands
    req,            \* per caller: the call it is running
    out,            \* per caller: what its call produced
    pipelineCalls,  \* number of pipeline(...) invocations so far
    pipelineFails,  \* number of pipeline(...) promises that rejected
    lastFailAt,     \* pipelineCalls at the latest rejection (0: none)
    started,        \* number of calls started so far
    queryVector,    \* vector math: first argument
    vectors,        \* vector math: candidate list (or <<b>> for a pair)
    topK,           \* vector math: findSimilar's topK
    mathOp,         \* vector math: the function applied ("none" before)
    mathRes,        \* vector math: its outcome
    simValue,       \* label: the similarity value being labelled
    labelFn,        \* label: what getSimilarity returned ("" before)
    labelInline     \* label: what the inline conditional gave ("" before)

providerVars == <<embedder, pc, req, out, pipelineCalls, pipelineFails,
                  lastFailAt, started>>
mathVars == <<queryVector, vectors, topK, mathOp, mathRes>>
labelVars == <<simValue, labelFn, labelInline>>
vars == <<providerVars, mathVars, labelVars>>

-----------------------------------------------------------------------------
(* Bounds *)

NumCallers == 2     \* concurrent callers
MaxCalls == 2       \* calls started in one run
MaxCands == 3       \* candidates handed to findSimilar
MaxTopK == 4        \* topK ranges over -MaxTopK .. MaxTopK
LabelScale == 20    \* labelled values are k / LabelScale, |k| <= LabelScale

Callers == 1 .. NumCallers

NULL == [id |-> 0, model |-> "null"]

DefaultModel == "Xenova/all-MiniLM-L6-v2"
ModelNames == {DefaultModel, "other-model"}

-----------------------------------------------------------------------------
(* JavaScript values of a request body, as far as validation reads them:   *)
(* t is the typeof tag, n the string's length or the number's value.       *)

JsUndefined == [t |-> "undefined", n |-> 0]
JsNull == [t |-> "object", n |-> 0]
JsString(len) == [t |-> "string", n |-> len]
JsNumber(k) == [t |-> "number", n |-> k]

BodyValues == {JsUndefined, JsNull, JsString(0), JsString(3), JsNumber(0),
               JsNumber(5)}

\* !v
Falsy(v) ==
    \/ v.t = "undefined"
    \/ v = JsNull
    \/ v.t = "string" /\ v.n = 0
    \/ v.t = "number" /\ v.n = 0

\* `texts` of /vectorize-batch: an array of values, or something else
TextsValues ==
    {[isArray |-> FALSE, elems |-> <<>>]} \cup
    {[isArray |-> TRUE, elems |-> e] :
        e \in {<<>>, <<JsString(3)>>, <<JsString(3), JsString(0)>>,
               <<JsString(3), JsNumber(5)>>, <<JsUndefined, JsString(3)>>}}

\* the validation without `!text`: only typeof text !== 'string'
RejectTextTypeOnly(text) == text.t # "string"

\* !text || typeof text !== 'string'
RejectText(text) == Falsy(text) \/ text.t # "string"

\* !Array.isArray(texts) || texts.some(t => typeof t !== 'string')
RejectTexts(texts) ==
    \/ ~texts.isArray
    \/ \E i \in 1 .. Len(texts.elems) : texts.elems[i].t # "string"

\* !textA || !textB || typeof textA !== 'string' || typeof textB !== 'string'
RejectPair(textA, textB) ==
    Falsy(textA) \/ Falsy(textB) \/ textA.t # "string" \/ textB.t # "string"

-----------------------------------------------------------------------------
(* Vector math *)

\* Inputs of the vector-math functions: the empty vector and two-component
\* vectors, among them the zero vector; <<9, 1>> is [0.9, 0.1] scaled by 10
\* (a cosine does not change under scaling).
Vectors == {<<>>, <<0, 0>>, <<1, 0>>, <<0, 1>>, <<9, 1>>, <<-1, 0>>}

RECURSIVE SumTo(_, _)
\* f[1] + ... + f[n]: the accumulation of a for loop over the indices
SumTo(f, n) == IF n = 0 THEN 0 ELSE SumTo(f, n - 1) + f[n]

NoResult == [kind |-> "none", n |-> 0, d |-> 1, list |-> <<>>]
\* throw new Error('Vectors must have the same length')
LengthError == [kind |-> "error", n |-> 0, d |-> 1, list |-> <<>>]
\* the number n / sqrt(d)
Number(n, d) == [kind |-> "number", n |-> n, d |-> d, list |-> <<>>]
\* the number sqrt(n)
Root(n) == [kind |-> "root", n |-> n, d |-> 1, list |-> <<>>]
List(l) == [kind |-> "list", n |-> 0, d |-> 1, list |-> l]

\* The loop without the zero-norm return: 0 / 0 is left as the pair (0, 0).
cosineSimilarityNoZeroNorm(vectorA, vectorB) ==
    IF Len(vectorA) # Len(vectorB) THEN LengthError
    ELSE LET dotProduct == SumTo([i \in 1 .. Len(vectorA) |->
                                     vectorA[i] * vectorB[i]], Len(vectorA))
             normA == SumTo([i \in 1 .. Len(vectorA) |->
                                vectorA[i] * vectorA[i]], Len(vectorA))
             normB == SumTo([i \in 1 .. Len(vectorB) |->
                                vectorB[i] * vectorB[i]], Len(vectorB))
         IN  Number(dotProduct, normA * normB)

\* The loop running over the shorter vector instead of throwing.
cosineSimilarityTruncating(vectorA, vectorB) ==
    LET len == IF Len(vectorA) < Len(vectorB) THEN Len(vectorA)
               ELSE Len(vectorB)
        dotProduct == SumTo([i \in 1 .. len |-> vectorA[i] * vectorB[i]], len)
        normA == SumTo([i \in 1 .. len |-> vectorA[i] * vectorA[i]], len)
        normB == SumTo([i \in 1 .. len |-> vectorB[i] * vectorB[i]], len)
    IN  IF normA = 0 \/ normB = 0 THEN Number(0, 1)
        ELSE Number(dotProduct, normA * normB)

\* dotProduct / (Math.sqrt(normA) * Math.sqrt(normB)) is kept as the pair
\* (dotProduct, normA * normB); the zero-norm return is the literal 0 = (0, 1).
cosineSimilarity(vectorA, vectorB) ==
    IF Len(vectorA) # Len(vectorB) THEN LengthError
    ELSE LET dotProduct == SumTo([i \in 1 .. Len(vectorA) |->
                                     vectorA[i] * vectorB[i]], Len(vectorA))
             normA == SumTo([i \in 1 .. Len(vectorA) |->
                                vectorA[i] * vectorA[i]], Len(vectorA))
             normB == SumTo([i \in 1 .. Len(vectorB) |->
                                vectorB[i] * vectorB[i]], Len(vectorB))
         IN  IF normA = 0 \/ normB = 0 THEN Number(0, 1)
             ELSE Number(dotProduct, normA * normB)

euclideanDistance(vectorA, vectorB) ==
    IF Len(vectorA) # Len(vectorB) THEN LengthError
    ELSE Root(SumTo([i \in 1 .. Len(vectorA) |->
                        (vectorA[i] - vectorB[i]) * (vectorA[i] - vectorB[i])],
                    Len(vectorA)))

\* sign(n) * n^2 * d: x < y for reals iff sign(x) x^2 < sign(y) y^2
SignedSquare(n, d) == IF n >= 0 THEN n * n * d ELSE 0 - (n * n * d)

\* s1 < s2 for s1 = n1 / sqrt(d1), s2 = n2 / sqrt(d2), both d > 0
SimLess(s1, s2) == SignedSquare(s1.n, s2.d) < SignedSquare(s2.n, s1.d)

\* the comparator (a, b) => b.similarity - a.similarity is positive:
\* b belongs before a
Comparator(a, b) == SimLess(a.similarity, b.similarity)

RECURSIVE Insert(_, _)
\* e placed into the sorted sequence s behind every element the comparator
\* does not put after it (a stable sort keeps equal elements in input order)
Insert(s, e) ==
    IF s = <<>> THEN <<e>>
    ELSE IF Comparator(s[Len(s)], e)
         THEN Append(Insert(SubSeq(s, 1, Len(s) - 1), e), s[Len(s)])
         ELSE Append(s, e)

RECURSIVE Sort(_)
\* Array.prototype.sort, which is stable
Sort(s) ==
    IF s = <<>> THEN <<>> ELSE Insert(Sort(SubSeq(s, 1, Len(s) - 1)), s[Len(s)])

\* Array.prototype.slice(start, end) for integer arguments: a negative
\* argument counts from the end of the array
Slice(s, start, end) ==
    LET len == Len(s)
        Rel(x) == IF x < 0 THEN (IF len + x < 0 THEN 0 ELSE len + x)
                  ELSE (IF x > len THEN len ELSE x)
    IN  SubSeq(s, Rel(start) + 1, Rel(end))

\* findSimilar's default value of topK
DefaultTopK == 5

\* A sort that orders by similarity but puts the later of two equal
\* candidates first.
SortUnstable(s) ==
    LET RECURSIVE InsertFront(_, _)
        InsertFront(t, e) ==
            IF t = <<>> THEN <<e>>
            ELSE IF Comparator(e, t[Len(t)]) THEN Append(t, e)
                 ELSE Append(InsertFront(SubSeq(t, 1, Len(t) - 1), e), t[Len(t)])
        RECURSIVE Go(_)
        Go(t) == IF t = <<>> THEN <<>>
                 ELSE InsertFront(Go(SubSeq(t, 1, Len(t) - 1)), t[Len(t)])
    IN  Go(s)

\* findSimilar over a sort that is not stable
findSimilarUnstable(queryVector_, vectors_, topK_) ==
    LET sims == [i \in 1 .. Len(vectors_) |->
                    cosineSimilarity(queryVector_, vectors_[i])]
    IN  IF \E i \in 1 .. Len(vectors_) : sims[i].kind = "error"
        THEN LengthError
        ELSE LET similarities ==
                     [i \in 1 .. Len(vectors_) |->
                         [index |-> i - 1,
                          similarity |-> [n |-> sims[i].n, d |-> sims[i].d]]]
             IN  List(Slice(SortUnstable(similarities), 0, topK_))

\* vectors.map((vector, index) => ({index, similarity: cosineSimilarity(...)}))
\*        .sort(...).slice(0, topK); a throw inside map ends the call
findSimilar(queryVector_, vectors_, topK_) ==
    LET sims == [i \in 1 .. Len(vectors_) |->
                    cosineSimilarity(queryVector_, vectors_[i])]
    IN  IF \E i \in 1 .. Len(vectors_) : sims[i].kind = "error"
        THEN LengthError
        ELSE LET similarities ==
                     [i \in 1 .. Len(vectors_) |->
                         [index |-> i - 1,
                          similarity |-> [n |-> sims[i].n, d |-> sims[i].d]]]
             IN  List(Slice(Sort(similarities), 0, topK_))

-----------------------------------------------------------------------------
(* Similarity label *)

\* the thresholds .8, .6, .4 of getSimilarity, in tenths
VerySimilarTenths == 8
SimilarTenths == 6
SomewhatSimilarTenths == 4
\* the thresholds 0.8, 0.6, 0.4 of the inline conditional, in tenths
InlineVerySimilarTenths == 8
InlineSimilarTenths == 6
InlineSomewhatSimilarTenths == 4

\* similarity > t / 10 for similarity = n / sqrt(d) and t > 0
Above(similarity, t) ==
    similarity.n > 0 /\ 100 * similarity.n * similarity.n > t * t * similarity.d

\* getSimilarity with >= in place of >
getSimilarityInclusive(similarity) ==
    IF similarity.n > 0 /\ 100 * similarity.n * similarity.n
                >= VerySimilarTenths * VerySimilarTenths * similarity.d
         THEN "Very similar"
    ELSE IF similarity.n > 0 /\ 100 * similarity.n * similarity.n
                >= SimilarTenths * SimilarTenths * similarity.d
         THEN "Similar"
    ELSE IF similarity.n > 0 /\ 100 * similarity.n * similarity.n
                >= SomewhatSimilarTenths * SomewhatSimilarTenths * similarity.d
         THEN "Somewhat similar"
    ELSE "Not similar"

getSimilarity(similarity) ==
    IF Above(similarity, VerySimilarTenths) THEN "Very similar"
    ELSE IF Above(similarity, SimilarTenths) THEN "Similar"
    ELSE IF Above(similarity, SomewhatSimilarTenths) THEN "Somewhat similar"
    ELSE "Not similar"

\* similarity > 0.8 ? 'Very similar' : similarity > 0.6 ? 'Similar' : ...
inlineInterpretation(similarity) ==
    CASE Above(similarity, InlineVerySimilarTenths) -> "Very similar"
      [] ~Above(similarity, InlineVerySimilarTenths)
            /\ Above(similarity, InlineSimilarTenths) -> "Similar"
      [] ~Above(similarity, InlineSimilarTenths)
            /\ Above(similarity, InlineSomewhatSimilarTenths) -> "Somewhat similar"
      [] OTHER -> "Not similar"

-----------------------------------------------------------------------------
(* Embedding provider and HTTP handlers *)

Routes == {"POST /vectorize", "POST /vectorize-batch", "POST /similarity"}

\* options.modelName: a model name, or absent
OptionModels == ModelNames \cup {"undefined"}
\* const { modelName = 'Xenova/all-MiniLM-L6-v2' } = options
ModelNameOf(opt) == IF opt = "undefined" THEN DefaultModel ELSE opt

\* Vectors the backend may return for a text.  All have four components and
\* integer norms, so every cosine between two of them is a rational number.
ModelVectors == {<<1, 0, 0, 0>>, <<4, 3, 0, 0>>, <<3, 4, 0, 0>>,
                 <<2, 4, 2, 1>>, <<1, 1, 1, 1>>, <<-1, 0, 0, 0>>}

\* req[p].modelName is the argument of a pipeline(...) call in flight; it is
\* "" when the call has none in flight (the name is not read again).
NoReq == [op |-> "none", modelName |-> "", invalid |-> FALSE]
NoOut == [status |-> 0, label |-> "", info |-> "unset"]

\* creations in flight: pipeline(...) invoked, its promise not yet settled
Creating == {p \in Callers : pc[p] = "creating"}
\* number of pipeline(...) promises that resolved
pipelineOks == pipelineCalls - pipelineFails - Cardinality(Creating)
\* the handle a resolving pipeline(...) hands over: a fresh object
NewHandle(modelName) == [id |-> pipelineOks + 1, model |-> modelName]

\* getModelInfo reading undefined instead of null: always initialized
getModelInfoUndefined == [isInitialized |-> TRUE]

getModelInfo == [isInitialized |-> embedder # NULL]

\* the texts/requests the specification calls invalid: missing, empty or
\* not a string; not an array, or an array with an element that is no string
InvalidText(text) == text.t # "string" \/ text.n = 0
InvalidTexts(texts) ==
    ~texts.isArray \/ \E i \in 1 .. Len(texts.elems) : texts.elems[i].t # "string"

\* the status a handler answers with when its body threw (tryCatch's error);
\* a direct library call has no status
ErrorStatus(op) == IF op \in Routes THEN 500 ELSE 0
OkStatus(op) == IF op \in Routes THEN 200 ELSE 0

\* A call reaches initializeEmbedder(modelName): `if (!embedder)` and, when
\* there is none, the invocation of pipeline(...), up to the await.  With a
\* handle, initializeEmbedder returns it, modelName unread, and a direct call
\* is complete.
EnterInitialize(p, op, modelName, invalid) ==
    /\ IF embedder = NULL
       THEN /\ pc' = [pc EXCEPT ![p] = "creating"]
            /\ pipelineCalls' = pipelineCalls + 1
            /\ req' = [req EXCEPT ![p] = [op |-> op, modelName |-> modelName,
                                          invalid |-> invalid]]
       ELSE /\ pc' = [pc EXCEPT ![p] = IF op = "initializeEmbedder"
                                       THEN "done" ELSE "ready"]
            /\ pipelineCalls' = pipelineCalls
            /\ req' = [req EXCEPT ![p] = [op |-> op, modelName |-> "",
                                          invalid |-> invalid]]
    /\ out' = [out EXCEPT ![p] = NoOut]
    /\ started' = started + 1
    /\ UNCHANGED <<embedder, pipelineFails, lastFailAt>>

\* c.json({ error: ... }, 400): the handler returns before calling the library
Reject(p, op, invalid) ==
    /\ pc' = [pc EXCEPT ![p] = "done"]
    /\ req' = [req EXCEPT ![p] = [op |-> op, modelName |-> "",
                                  invalid |-> invalid]]
    /\ out' = [out EXCEPT ![p] = [NoOut EXCEPT !.status = 400]]
    /\ started' = started + 1
    /\ UNCHANGED <<embedder, pipelineCalls, pipelineFails, lastFailAt>>

CanStart(p) == pc[p] = "idle" /\ started < MaxCalls

\* a direct call of initializeEmbedder(modelName), modelName possibly omitted
InitializeEmbedderCall(p) ==
    /\ CanStart(p)
    /\ \E opt \in OptionModels :
          EnterInitialize(p, "initializeEmbedder", ModelNameOf(opt), FALSE)
    /\ UNCHANGED <<mathVars, labelVars>>

\* GET /info: c.json(getModelInfo())
GetInfo(p) ==
    /\ CanStart(p)
    /\ pc' = [pc EXCEPT ![p] = "done"]
    /\ req' = [req EXCEPT ![p] = [NoReq EXCEPT !.op = "GET /info"]]
    /\ out' = [out EXCEPT ![p] = [NoOut EXCEPT
                  !.status = 200,
                  !.info = IF getModelInfo.isInitialized THEN "true" ELSE "false"]]
    /\ started' = started + 1
    /\ UNCHANGED <<embedder, pipelineCalls, pipelineFails, lastFailAt,
                   mathVars, labelVars>>

\* POST /vectorize, up to the first await inside vectorize
PostVectorize(p) ==
    /\ CanStart(p)
    /\ \E text \in BodyValues, opt \in OptionModels :
          IF RejectText(text)
          THEN Reject(p, "POST /vectorize", InvalidText(text))
          ELSE EnterInitialize(p, "POST /vectorize", ModelNameOf(opt),
                               InvalidText(text))
    /\ UNCHANGED <<mathVars, labelVars>>

\* POST /vectorize-batch, up to the first await inside vectorizeBatch
PostVectorizeBatch(p) ==
    /\ CanStart(p)
    /\ \E texts \in TextsValues, opt \in OptionModels :
          IF RejectTexts(texts)
          THEN Reject(p, "POST /vectorize-batch", InvalidTexts(texts))
          ELSE EnterInitialize(p, "POST /vectorize-batch", ModelNameOf(opt),
                               InvalidTexts(texts))
    /\ UNCHANGED <<mathVars, labelVars>>

\* POST /similarity, up to the first await inside vectorizeBatch
PostSimilarity(p) ==
    /\ CanStart(p)
    /\ \E textA \in BodyValues, textB \in BodyValues, opt \in OptionModels :
          LET invalid == InvalidText(textA) \/ InvalidText(textB)
          IN  IF RejectPair(textA, textB)
              THEN Reject(p, "POST /similarity", invalid)
              ELSE EnterInitialize(p, "POST /similarity", ModelNameOf(opt),
                                   invalid)
    /\ UNCHANGED <<mathVars, labelVars>>

\* a rejected pipeline(...) that still leaves a handle behind
PipelineFailPoisoning(p) ==
    /\ pc[p] = "creating"
    /\ embedder' = NewHandle(req[p].modelName)
    /\ pipelineFails' = pipelineFails + 1
    /\ lastFailAt' = pipelineCalls
    /\ pc' = [pc EXCEPT ![p] = "failed"]
    /\ req' = [req EXCEPT ![p].modelName = ""]
    /\ out' = [out EXCEPT ![p].status = ErrorStatus(req[p].op)]
    /\ UNCHANGED <<pipelineCalls, started, mathVars, labelVars>>

\* pipeline(...) resolves: embedder = <the new handle>; return embedder
PipelineOk(p) ==
    /\ pc[p] = "creating"
    /\ embedder' = NewHandle(req[p].modelName)
    /\ pc' = [pc EXCEPT ![p] = IF req[p].op = "initializeEmbedder"
                               THEN "done" ELSE "ready"]
    /\ req' = [req EXCEPT ![p].modelName = ""]
    /\ UNCHANGED <<out, pipelineCalls, pipelineFails, lastFailAt, started,
                   mathVars, labelVars>>

\* pipeline(...) rejects: the await throws, nothing is assigned, the error
\* leaves initializeEmbedder and its caller (a handler answers 500)
PipelineFail(p) ==
    /\ pc[p] = "creating"
    /\ pipelineFails' = pipelineFails + 1
    /\ lastFailAt' = pipelineCalls
    /\ pc' = [pc EXCEPT ![p] = "failed"]
    /\ req' = [req EXCEPT ![p].modelName = ""]
    /\ out' = [out EXCEPT ![p].status = ErrorStatus(req[p].op)]
    /\ UNCHANGED <<embedder, pipelineCalls, started, mathVars, labelVars>>

\* after `await initializeEmbedder(modelName)`: embedder(text, {...}) is
\* invoked on the module-level handle, whichever it is by now, up to the await
Infer(p) ==
    /\ pc[p] = "ready"
    /\ pc' = [pc EXCEPT ![p] = "inferring"]
    /\ UNCHANGED <<embedder, req, out, pipelineCalls, pipelineFails,
                   lastFailAt, started, mathVars, labelVars>>

\* inference resolves; /similarity goes on to cosineSimilarity and the label
InferOk(p) ==
    /\ pc[p] = "inferring"
    /\ pc' = [pc EXCEPT ![p] = "done"]
    /\ IF req[p].op = "POST /similarity"
       THEN \E vectorA \in ModelVectors, vectorB \in ModelVectors :
               LET similarity == cosineSimilarity(vectorA, vectorB)
               IN  out' = [out EXCEPT ![p].status = 200,
                                      ![p].label = getSimilarity(similarity)]
       ELSE out' = [out EXCEPT ![p].status = OkStatus(req[p].op)]
    /\ UNCHANGED <<embedder, req, pipelineCalls, pipelineFails, lastFailAt,
                   started, mathVars, labelVars>>

\* inference rejects: the error leaves vectorize/vectorizeBatch
InferFail(p) ==
    /\ pc[p] = "inferring"
    /\ pc' = [pc EXCEPT ![p] = "failed"]
    /\ out' = [out EXCEPT ![p].status = ErrorStatus(req[p].op)]
    /\ UNCHANGED <<embedder, req, pipelineCalls, pipelineFails, lastFailAt,
                   started, mathVars, labelVars>>

\* the caller is free for its next call
Release(p) ==
    /\ pc[p] \in {"done", "failed"}
    /\ pc' = [pc EXCEPT ![p] = "idle"]
    /\ req' = [req EXCEPT ![p] = NoReq]
    /\ out' = [out EXCEPT ![p] = NoOut]
    /\ UNCHANGED <<embedder, pipelineCalls, pipelineFails, lastFailAt,
                   started, mathVars, labelVars>>

ProviderInit ==
    /\ embedder = NULL
    /\ pc = [p \in Callers |-> "idle"]
    /\ req = [p \in Callers |-> NoReq]
    /\ out = [p \in Callers |-> NoOut]
    /\ pipelineCalls = 0
    /\ pipelineFails = 0
    /\ lastFailAt = 0
    /\ started = 0

MathIdle ==
    /\ queryVector = <<>>
    /\ vectors = <<>>
    /\ topK = 0
    /\ mathOp = "none"
    /\ mathRes = NoResult

LabelIdle ==
    /\ simValue = [n |-> 0, d |-> 1]
    /\ labelFn = ""
    /\ labelInline = ""

Init == ProviderInit /\ MathIdle /\ LabelIdle

Next ==
    \E p \in Callers :
        \/ InitializeEmbedderCall(p)
        \/ GetInfo(p)
        \/ PostVectorize(p)
        \/ PostVectorizeBatch(p)
        \/ PostSimilarity(p)
        \/ PipelineOk(p)
        \/ PipelineFail(p)
        \/ Infer(p)
        \/ InferOk(p)
        \/ InferFail(p)
        \/ Release(p)

Spec == Init /\ [][Next]_vars

-----------------------------------------------------------------------------
(* Vector math applied to drawn inputs *)

CandidateLists == UNION {[1 .. n -> Vectors] : n \in 0 .. MaxCands}

MathInit ==
    /\ ProviderInit
    /\ LabelIdle
    /\ queryVector \in Vectors
    /\ vectors \in CandidateLists
    /\ topK \in (0 - MaxTopK) .. MaxTopK
    /\ mathOp = "none"
    /\ mathRes = NoResult

\* cosineSimilarity(queryVector, vectors[0])
CosineSimilarityCall ==
    /\ mathOp = "none"
    /\ Len(vectors) >= 1
    /\ mathOp' = "cosineSimilarity"
    /\ mathRes' = cosineSimilarity(queryVector, vectors[1])
    /\ UNCHANGED <<queryVector, vectors, topK, providerVars, labelVars>>

\* euclideanDistance(queryVector, vectors[0])
EuclideanDistanceCall ==
    /\ mathOp = "none"
    /\ Len(vectors) >= 1
    /\ mathOp' = "euclideanDistance"
    /\ mathRes' = euclideanDistance(queryVector, vectors[1])
    /\ UNCHANGED <<queryVector, vectors, topK, providerVars, labelVars>>

\* findSimilar(queryVector, vectors, topK)
FindSimilarCall ==
    /\ mathOp = "none"
    /\ mathOp' = "findSimilar"
    /\ mathRes' = findSimilar(queryVector, vectors, topK)
    /\ UNCHANGED <<queryVector, vectors, topK, providerVars, labelVars>>

\* findSimilar(queryVector, vectors): topK takes its default
FindSimilarDefaultCall ==
    /\ mathOp = "none"
    /\ mathOp' = "findSimilar"
    /\ topK' = DefaultTopK
    /\ mathRes' = findSimilar(queryVector, vectors, DefaultTopK)
    /\ UNCHANGED <<queryVector, vectors, providerVars, labelVars>>

MathNext ==
    \/ CosineSimilarityCall
    \/ EuclideanDistanceCall
    \/ FindSimilarCall
    \/ FindSimilarDefaultCall

MathSpec == MathInit /\ [][MathNext]_vars

-----------------------------------------------------------------------------
(* The similarity label applied to drawn values *)

LabelInit ==
    /\ ProviderInit
    /\ MathIdle
    /\ simValue \in {[n |-> k, d |-> LabelScale * LabelScale] :
                        k \in (0 - LabelScale) .. LabelScale}
    /\ labelFn = ""
    /\ labelInline = ""

\* interpretation: getSimilarity(similarity)
GetSimilarityCall ==
    /\ labelFn = ""
    /\ labelFn' = getSimilarity(simValue)
    /\ UNCHANGED <<simValue, labelInline, providerVars, mathVars>>

\* interpretation: similarity > 0.8 ? ... : ...
InlineInterpretationCall ==
    /\ labelInline = ""
    /\ labelInline' = inlineInterpretation(simValue)
    /\ UNCHANGED <<simValue, labelFn, providerVars, mathVars>>

LabelNext == GetSimilarityCall \/ InlineInterpretationCall

LabelSpec == LabelInit /\ [][LabelNext]_vars

-----------------------------------------------------------------------------
(* Claims about the embedding provider and the handlers (under Spec) *)

\* C1: single-flight initialization: of all pipeline(...) invocations at most
\* one is in flight or has produced a handle, however many calls were started
\* while no handle existed (a rejected creation may be followed by another).
C1_SingleFlight == pipelineCalls - pipelineFails <= 1

\* C2: once the shared handle is non-null it is never assigned again: every
\* step from a state with a handle leaves that handle in place.
C2_HandleNeverReassigned == [][embedder # NULL => embedder' = embedder]_vars

\* C3: a failed initialization does not poison the singleton: the step in
\* which a pipeline(...) promise rejects leaves the handle as it was (null
\* stays null, and getModelInfo then reports isInitialized = false), fails
\* exactly the call that awaited it (error status for a handler), that call
\* never goes on to inference, and a call that needs the embedder while the
\* handle is null invokes pipeline(...) again.
C3_FailedInitNotPoisoning ==
    [][/\ pipelineFails' # pipelineFails =>
            /\ embedder' = embedder
            /\ embedder = NULL => ~getModelInfo'.isInitialized
            /\ \E p \in Callers :
                  /\ pc[p] = "creating"
                  /\ pc'[p] = "failed"
                  /\ out'[p].status = ErrorStatus(req[p].op)
                  /\ \A q \in Callers \ {p} : pc'[q] = pc[q] /\ out'[q] = out[q]
       /\ \A p \in Callers :
             /\ pc[p] = "failed" => pc'[p] \in {"failed", "idle"}
             /\ pc[p] = "creating" => pc'[p] \in {"creating", "failed", "ready", "done"}
             /\ (/\ pc[p] = "idle"
                 /\ pc'[p] # "idle"
                 /\ req'[p].op \in Routes \cup {"initializeEmbedder"}
                 /\ out'[p].status # 400
                 /\ embedder = NULL)
                => pc'[p] = "creating" /\ pipelineCalls' = pipelineCalls + 1
      ]_vars

\* C3 witness: the first creation was rejected, a later call invoked
\* pipeline(...) a second time and that creation stored a handle.
C3_Witness ==
    /\ lastFailAt = 1
    /\ pipelineFails = 1
    /\ pipelineCalls = 2
    /\ embedder # NULL

\* C8: getModelInfo reports isInitialized = true exactly when a creation has
\* completed and stored its handle (false while one is in flight and after a
\* rejected one), a handle once stored is never removed, and GET /info
\* answers with that value without starting a creation or touching the handle.
C8_InfoIffCreated ==
    /\ [](getModelInfo.isInitialized <=> pipelineOks > 0)
    /\ [][/\ embedder # NULL => embedder' # NULL
          /\ \A p \in Callers :
                (pc[p] = "idle" /\ req'[p].op = "GET /info") =>
                    /\ out'[p].info = IF pipelineOks > 0 THEN "true" ELSE "false"
                    /\ embedder' = embedder
                    /\ pipelineCalls' = pipelineCalls
                    /\ pc'[p] = "done"
         ]_vars

\* C8 witness: GET /info has answered isInitialized = false while another
\* caller's creation is in flight.
C8_Witness ==
    \E p \in Callers, q \in Callers :
        /\ req[p].op = "GET /info"
        /\ out[p].info = "false"
        /\ pc[q] = "creating"

\* C9: a request that fails validation never reaches the provider: it is
\* answered 400 in the step that starts it, that step invokes no
\* pipeline(...) and leaves the handle alone, and the request is never found
\* creating, ready for inference or inferring.
C9_InvalidNeverReachesProvider ==
    /\ [](\A p \in Callers :
             req[p].invalid => pc[p] = "done" /\ out[p].status = 400)
    /\ [][\A p \in Callers :
             (pc[p] = "idle" /\ req'[p].invalid) =>
                 /\ out'[p].status = 400
                 /\ embedder' = embedder
                 /\ pipelineCalls' = pipelineCalls
         ]_vars

\* C9 witness: an invalid /similarity request answered 400 while no handle
\* exists and no creation was started.
C9_Witness ==
    \E p \in Callers :
        /\ req[p].op = "POST /similarity"
        /\ req[p].invalid
        /\ out[p].status = 400
        /\ embedder = NULL
        /\ pipelineCalls = 0

-----------------------------------------------------------------------------
(* Claims about vector math (under MathSpec) *)

Min(a, b) == IF a < b THEN a ELSE b

IsFindSimilar == mathOp = "findSimilar" /\ mathRes.kind = "list"

\* C4: findSimilar returns min(topK, number of candidates) entries when
\* topK > 0 and none when topK <= 0.
C4_ResultLength ==
    IsFindSimilar =>
        Len(mathRes.list) = IF topK > 0 THEN Min(topK, Len(vectors)) ELSE 0

\* the similarity the claim ranks candidate i (1-based) by
CandidateSim(i) ==
    LET c == cosineSimilarity(queryVector, vectors[i])
    IN  [n |-> c.n, d |-> c.d]

\* candidate j comes before candidate i in the order (similarity descending,
\* index ascending)
RankedBefore(j, i) ==
    \/ SimLess(CandidateSim(i), CandidateSim(j))
    \/ /\ ~SimLess(CandidateSim(j), CandidateSim(i))
       /\ j < i

\* position of candidate i in that order
RankOf(i) == 1 + Cardinality({j \in 1 .. Len(vectors) : RankedBefore(j, i)})

\* C5: findSimilar's entries are in non-increasing order of similarity, each
\* carries the position and the cosine of its candidate, no index occurs
\* twice, equal similarities keep the lower index first: entry number i is
\* the candidate of rank i by (similarity descending, index ascending), and
\* for topK >= 0 there are min(topK, number of candidates) of them.
C5_RankedPrefix ==
    IsFindSimilar =>
        LET r == mathRes.list
        IN  /\ Len(r) <= Len(vectors)
            /\ topK >= 0 => Len(r) = Min(topK, Len(vectors))
            /\ \A i \in 1 .. Len(r) :
                  /\ r[i].index \in 0 .. Len(vectors) - 1
                  /\ r[i].similarity = CandidateSim(r[i].index + 1)
                  /\ RankOf(r[i].index + 1) = i
            /\ \A i \in 1 .. Len(r), j \in 1 .. Len(r) :
                  i < j =>
                     /\ ~SimLess(r[i].similarity, r[j].similarity)
                     /\ r[i].index # r[j].index
                     /\ ~SimLess(r[j].similarity, r[i].similarity)
                           => r[i].index < r[j].index

\* C5 witness: findSimilar([1,0], [[1,0],[0,1],[0.9,0.1]], 2) has returned
\* the indices 0 and 2 in that order.
C5_Witness ==
    /\ IsFindSimilar
    /\ queryVector = <<1, 0>>
    /\ vectors = <<(<<1, 0>>), (<<0, 1>>), (<<9, 1>>)>>
    /\ topK = 2
    /\ Len(mathRes.list) = 2
    /\ mathRes.list[1].index = 0
    /\ mathRes.list[2].index = 2

Mismatch(i) == Len(vectors[i]) # Len(queryVector)

\* C6: a length mismatch is an error, never a truncation: cosineSimilarity
\* and euclideanDistance of vectors of unequal length end in the length
\* error, and so does findSimilar when any candidate's length differs from
\* the query's, for every topK and every position of that candidate.
C6_MismatchIsError ==
    /\ (mathOp \in {"cosineSimilarity", "euclideanDistance"} /\ Mismatch(1))
          => mathRes = LengthError
    /\ (mathOp = "findSimilar" /\ \E i \in 1 .. Len(vectors) : Mismatch(i))
          => mathRes = LengthError

\* C6 witness: findSimilar with topK = 0 has failed on a list whose only
\* candidate of another length is the last one.
C6_Witness ==
    /\ mathOp = "findSimilar"
    /\ topK = 0
    /\ Len(vectors) = 3
    /\ ~Mismatch(1) /\ ~Mismatch(2) /\ Mismatch(3)
    /\ mathRes = LengthError

AllZero(v) == \A i \in 1 .. Len(v) : v[i] = 0

\* C7: zero-norm fallback: cosineSimilarity of equal-length vectors one of
\* which has only zero components (both empty included) returns the literal
\* 0, not an error and not the outcome of a division.
C7_ZeroNormIsZero ==
    (/\ mathOp = "cosineSimilarity"
     /\ ~Mismatch(1)
     /\ AllZero(queryVector) \/ AllZero(vectors[1]))
    => mathRes = Number(0, 1)

\* C7 witness: cosineSimilarity([], []) has returned 0.
C7_Witness ==
    /\ mathOp = "cosineSimilarity"
    /\ queryVector = <<>>
    /\ vectors[1] = <<>>
    /\ mathRes = Number(0, 1)

-----------------------------------------------------------------------------
(* Claim about the similarity label (under LabelSpec) *)

\* similarity > a / b, similarity = a / b for similarity = n / sqrt(d), a, b > 0
ExceedsFraction(similarity, a, b) ==
    similarity.n > 0 /\ b * b * similarity.n * similarity.n > a * a * similarity.d
EqualsFraction(similarity, a, b) ==
    similarity.n > 0 /\ b * b * similarity.n * similarity.n = a * a * similarity.d

\* the label the thresholds 0.8 = 4/5, 0.6 = 3/5, 0.4 = 2/5 ask for
ExpectedLabel(similarity) ==
    IF ExceedsFraction(similarity, 4, 5) THEN "Very similar"
    ELSE IF ExceedsFraction(similarity, 3, 5) THEN "Similar"
    ELSE IF ExceedsFraction(similarity, 2, 5) THEN "Somewhat similar"
    ELSE "Not similar"

\* C10: the label is a total function of the value with strict thresholds
\* (exactly 0.8 is "Similar", exactly 0.6 "Somewhat similar", exactly 0.4 and
\* everything below, negatives included, "Not similar"), and getSimilarity
\* and the inline conditional give every value the same label.
C10_LabelThresholds ==
    /\ labelFn # "" =>
          /\ labelFn = ExpectedLabel(simValue)
          /\ EqualsFraction(simValue, 4, 5) => labelFn = "Similar"
          /\ EqualsFraction(simValue, 3, 5) => labelFn = "Somewhat similar"
          /\ EqualsFraction(simValue, 2, 5) => labelFn = "Not similar"
          /\ simValue.n <= 0 => labelFn = "Not similar"
    /\ labelInline # "" => labelInline = ExpectedLabel(simValue)
    /\ (labelFn # "" /\ labelInline # "") => labelFn = labelInline

\* C10 witness: the value exactly 0.8 has been labelled "Similar" by both.
C10_Witness ==
    /\ EqualsFraction(simValue, 4, 5)
    /\ labelFn = "Similar"
    /\ labelInline = "Similar"

=============================================================================
